---- MODULE Spec2Model ----
(***************************************************************************)
(* Model of src/app.py: the Enhanced Building Materials Search API.        *)
(*                                                                         *)
(* The program is a Flask application with three handlers (health_check,   *)
(* search, demo) over one module-level dictionary,                         *)
(* ENHANCED_KNOWLEDGE_BASE.  Strings are TLA+ strings and the string       *)
(* operations of the code (lower, strip, split, `in`, re.search) are       *)
(* computed character by character.  A price "£13.38" is held as the       *)
(* number of pence, 1338; the code never converts a price.  Of each        *)
(* product record the fields supplier, price, product_name and category    *)
(* are kept; no handler reads the others.                                  *)
(***************************************************************************)
EXTENDS Integers, Sequences, FiniteSets, TLC

VARIABLES kb,        \* ENHANCED_KNOWLEDGE_BASE, in dict insertion order
          request,   \* the request handled last
          response,  \* the response returned last
          lookup,    \* the call of find_best_match made by the last request
          first      \* observer: the first search answered with records

vars == <<kb, request, response, lookup, first>>

(***************************************************************************)
(* String operations                                                       *)
(***************************************************************************)
Upper == "ABCDEFGHIJKLMNOPQRSTUVWXYZ"
Lower == "abcdefghijklmnopqrstuvwxyz"
Digits == "0123456789"
Whitespace == " \t\n"

Char(s, i) == SubSeq(s, i, i)

CharsOf(s) == {Char(s, i) : i \in 1..Len(s)}

UpperChars == CharsOf(Upper)
DigitChars == CharsOf(Digits)
SpaceChars == CharsOf(Whitespace)

\* the lower-case letter of each upper-case letter
ToLower ==
    [c \in UpperChars |-> Char(Lower, CHOOSE i \in 1..Len(Upper) : Char(Upper, i) = c)]

\* w in s
Contains(w, s) ==
    \E i \in 1..(Len(s) - Len(w) + 1) : SubSeq(s, i, i + Len(w) - 1) = w

LowerChar(c) == IF c \in UpperChars THEN ToLower[c] ELSE c

RECURSIVE lower(_)
\* str.lower()
lower(s) ==
    IF Len(s) = 0 THEN ""
    ELSE LowerChar(Char(s, 1)) \o lower(SubSeq(s, 2, Len(s)))

IsSpace(c) == c \in SpaceChars

\* str.strip()
strip(s) ==
    LET keep == {i \in 1..Len(s) : ~IsSpace(Char(s, i))}
    IN  IF keep = {} THEN ""
        ELSE SubSeq(s, CHOOSE i \in keep : \A j \in keep : i <= j,
                       CHOOSE i \in keep : \A j \in keep : i >= j)

RECURSIVE split(_)
\* str.split(): the whitespace-separated words of s, in order
split(s) ==
    LET t == strip(s)
        ends == {i \in 1..Len(t) : IsSpace(Char(t, i))}
    IN  IF t = "" THEN <<>>
        ELSE IF ends = {} THEN <<t>>
        ELSE LET e == CHOOSE i \in ends : \A j \in ends : i <= j
             IN  <<SubSeq(t, 1, e - 1)>> \o split(SubSeq(t, e + 1, Len(t)))

IsDigit(c) == c \in DigitChars

\* re.search(r'(\d+)mm', s): group(1) of the leftmost match, "" when there
\* is none.  \d+ is greedy, and a shorter run of digits is followed by a
\* digit, so a match at i takes the whole run of digits that starts at i.
thickness_match(s) ==
    LET RunEnd(i) == CHOOSE j \in i..Len(s) :
                        /\ \A k \in i..j : IsDigit(Char(s, k))
                        /\ (j = Len(s) \/ ~IsDigit(Char(s, j + 1)))
        Matches(i) == /\ IsDigit(Char(s, i))
                      /\ SubSeq(s, RunEnd(i) + 1, RunEnd(i) + 2) = "mm"
        starts == {i \in 1..Len(s) : Matches(i)}
    IN  IF starts = {} THEN ""
        ELSE LET i == CHOOSE a \in starts : \A b \in starts : a <= b
             IN  SubSeq(s, i, RunEnd(i))

(***************************************************************************)
(* The knowledge base                                                      *)
(***************************************************************************)
Rec(s, p, n, c) == [supplier |-> s, price |-> p, product_name |-> n, category |-> c]

PIR == "PIR Insulation"
PB == "Plasterboard"

Results25 == <<
    Rec("insulation4less", 1338, "25mm Celotex TB4025 PIR Insulation Board 2400mm x 1200mm", PIR),
    Rec("cutpriceinsulation", 1438, "25mm Ecotherm Eco-Versal PIR Insulation Board 2400mm x 1200mm", PIR),
    Rec("nationalinsulationsupplies", 1520, "25mm Kingspan TP10 PIR Insulation Board 2400mm x 1200mm", PIR),
    Rec("buildersinsulation", 1645, "25mm Mannok PIR Insulation Board 2400mm x 1200mm", PIR),
    Rec("insulationuk", 1780, "25mm Recticel Instafit PIR Insulation Board 2400mm x 1200mm", PIR),
    Rec("buyinsulation", 1895, "25mm Xtratherm Thin-R PIR Insulation Board 2400mm x 1200mm", PIR),
    Rec("constructionmegastore", 1950, "25mm IKO Enertherm PIR Insulation Board 2400mm x 1200mm", PIR),
    Rec("insulationsuperstore", 2125, "25mm Thermboard PIR Insulation Board 2400mm x 1200mm", PIR),
    Rec("tradeinsulations", 2280, "25mm Unilin PIR Insulation Board 2400mm x 1200mm", PIR),
    Rec("wickes", 3450, "25mm Kingspan TP10 PIR Insulation Board 2400mm x 1200mm", PIR) >>

Results50 == <<
    Rec("insulation4less", 2450, "50mm Celotex TB4050 PIR Insulation Board 2400mm x 1200mm", PIR),
    Rec("cutpriceinsulation", 2680, "50mm Ecotherm Eco-Versal PIR Insulation Board 2400mm x 1200mm", PIR),
    Rec("wickes", 3950, "50mm Kingspan TP10 PIR Insulation Board 2400mm x 1200mm", PIR) >>

ResultsPlasterboard == <<
    Rec("insulation4less", 832, "9.5mm Gyproc WallBoard Plasterboard 2400mm x 1200mm", PB),
    Rec("cutpriceinsulation", 888, "9.5mm British Gypsum Plasterboard 2400mm x 1200mm", PB),
    Rec("diy.com", 950, "9.5mm Gyproc Standard Plasterboard 2400mm x 1200mm", PB) >>

Key25 == "cheapest 25mm pir insulation"
Key50 == "cheapest 50mm pir insulation"
KeyPlasterboard == "plasterboard 9.5mm price"

Entry(k, rs) == [key |-> k, data |-> [results |-> rs]]

\* a catalogue whose second 25mm record was entered out of price order
KB_price_disorder ==
    << Entry(Key25, <<Results25[2], Results25[1]>> \o SubSeq(Results25, 3, 10)),
       Entry(Key50, Results50),
       Entry(KeyPlasterboard, ResultsPlasterboard) >>

\* a catalogue whose last plasterboard record repeats the first one's
\* supplier and product at a higher price
KB_duplicate_record ==
    << Entry(Key25, Results25),
       Entry(Key50, Results50),
       Entry(KeyPlasterboard,
             <<ResultsPlasterboard[1], ResultsPlasterboard[2],
               Rec("insulation4less", 950,
                   "9.5mm Gyproc WallBoard Plasterboard 2400mm x 1200mm", PB)>>) >>

\* the dictionary literal, its keys in insertion order
ENHANCED_KNOWLEDGE_BASE ==
    << Entry(Key25, Results25),
       Entry(Key50, Results50),
       Entry(KeyPlasterboard, ResultsPlasterboard) >>

\* ENHANCED_KNOWLEDGE_BASE[key]
kb_get(key) == kb[CHOOSE i \in DOMAIN kb : kb[i].key = key].data

\* any(word in s for word in words)
AnyIn(words, s) == \E i \in DOMAIN words : Contains(words[i], s)

PirKeywords == <<"pir", "insulation", "thermal", "celotex", "kingspan">>
PlasterboardKeywords == <<"plasterboard", "plaster", "drywall", "gypsum">>

\* the entries one of whose key words occurs in the lower-cased query
DirectMatches(query_lower) ==
    {i \in DOMAIN kb : AnyIn(split(kb[i].key), query_lower)}

\* a lookup that answers a total miss with no records
default_fallback_empty == [results |-> <<>>]

\* a lookup that answers a total miss with one synthetic placeholder record
default_fallback_placeholder ==
    [results |-> <<Rec("UK Supplier", 0, "Building Material", "Building Material")>>]

\* "Default fallback": the last return of find_best_match
default_fallback == kb_get(Key25)

\* a lookup that gathers the records of every entry a key word of which
\* occurs in the query, instead of returning at the first such entry
RECURSIVE collect(_, _)
collect(i, query_lower) ==
    IF i > Len(kb) THEN <<>>
    ELSE (IF AnyIn(split(kb[i].key), query_lower) THEN kb[i].data.results ELSE <<>>)
         \o collect(i + 1, query_lower)

find_best_match_collect_all(query) ==
    LET query_lower == lower(query)
    IN  IF DirectMatches(query_lower) # {}
        THEN [results |-> collect(1, query_lower)]
        ELSE default_fallback

find_best_match(query) ==
    LET query_lower == lower(query)
        direct == DirectMatches(query_lower)
    IN  IF direct # {}
        THEN \* direct keyword matching: the first entry in dict order
             kb[CHOOSE i \in direct : \A j \in direct : i <= j].data
        ELSE IF AnyIn(PirKeywords, query_lower)
        THEN \* fuzzy matching for PIR insulation
             IF thickness_match(query_lower) = "25" THEN kb_get(Key25)
             ELSE IF thickness_match(query_lower) = "50" THEN kb_get(Key50)
             ELSE kb_get(Key25)
        ELSE IF AnyIn(PlasterboardKeywords, query_lower)
        THEN \* fuzzy matching for plasterboard
             kb_get(KeyPlasterboard)
        ELSE default_fallback

(***************************************************************************)
(* Requests and responses                                                  *)
(***************************************************************************)
\* The JSON body of a POST /api/search: json is FALSE when get_json()
\* yields no object, has_query when the object has the key "query", is_str
\* when its value is a string (query), otherwise null or a number.
Body(j, h, s, q) == [json |-> j, has_query |-> h, is_str |-> s, query |-> q]

NoBody == Body(FALSE, FALSE, FALSE, "")
NoQueryKey == Body(TRUE, FALSE, FALSE, "")
NullQuery == Body(TRUE, TRUE, FALSE, "")

Queries ==
    { "", "   ", " \t", "ab", " a ",
      "50mm PIR insulation", "cheapest 50mm pir insulation",
      "cheapest 25mm pir insulation", "25mm PIR",
      "50mm kingspan", " 50MM Celotex board ", "150mm kingspan",
      "kingspan 100mm", "thermal board", "Celotex 5 mm",
      "plasterboard 9.5mm price", "Plasterboard", "cheapest plasterboard",
      "50mm plasterboard", "drywall sheets", "price",
      "insulation price", "spirit level", "bricks" }

Bodies == {NoBody, NoQueryKey, NullQuery} \cup {Body(TRUE, TRUE, TRUE, q) : q \in Queries}

NoLookup == [called |-> FALSE, query |-> ""]
Called(q) == [called |-> TRUE, query |-> q]

NoSummary == [material |-> "", count |-> 0, range |-> <<>>]

ErrorResponse(code, msg) ==
    [kind |-> "error", status |-> code, error |-> msg, ai_summary |-> NoSummary,
     results |-> <<>>, total_results |-> 0]

\* the f-strings of search: the material named, the count, and the first
\* and last price when the summary states a range
Summary(m, rs, ranged) ==
    [material |-> m, count |-> Len(rs),
     range |-> IF ranged THEN <<rs[1].price, rs[Len(rs)].price>> ELSE <<>>]

\* the body of search from the lookup on, given the trimmed query
search_found(query) ==
    LET match_data == find_best_match(query)
        results == match_data.results
        q == lower(query)
        ranged == Contains("pir", q) \/ Contains("insulation", q)
                     \/ Contains("plasterboard", q)
    IN  IF ranged /\ Len(results) = 0
        THEN ErrorResponse(500, "exception")   \* results[0]: IndexError
        ELSE [kind |-> "search", status |-> 200, error |-> "",
              ai_summary |->
                 IF Contains("pir", q) \/ Contains("insulation", q)
                 THEN Summary("PIR insulation", results, TRUE)
                 ELSE IF Contains("plasterboard", q)
                 THEN Summary("plasterboard", results, TRUE)
                 ELSE Summary("building material", results, FALSE),
              results |-> results,
              total_results |-> Len(results)]

Outcome(r, l) == [response |-> r, lookup |-> l]

\* a handler that tests the query before trimming it
search_outcome_no_strip(body) ==
    IF ~body.json \/ (body.has_query /\ ~body.is_str)
    THEN Outcome(ErrorResponse(500, "exception"), NoLookup)
    ELSE LET query == IF body.has_query THEN body.query ELSE ""
         IN  IF query = ""
             THEN Outcome(ErrorResponse(400, "Query is required"), NoLookup)
             ELSE Outcome(search_found(strip(query)), Called(strip(query)))

\* a handler that also rejects queries shorter than three characters
search_outcome_min_length(body) ==
    IF ~body.json \/ (body.has_query /\ ~body.is_str)
    THEN Outcome(ErrorResponse(500, "exception"), NoLookup)
    ELSE LET query == IF body.has_query THEN strip(body.query) ELSE ""
         IN  IF Len(query) < 3
             THEN Outcome(ErrorResponse(400, "Query is required"), NoLookup)
             ELSE Outcome(search_found(query), Called(query))

\* search(): the response and the call of find_best_match it makes
search_outcome(body) ==
    IF ~body.json \/ (body.has_query /\ ~body.is_str)
    THEN \* data.get on None, or .strip() on a non-string: except Exception
         Outcome(ErrorResponse(500, "exception"), NoLookup)
    ELSE LET query == IF body.has_query THEN strip(body.query) ELSE strip("")
         IN  IF query = ""
             THEN Outcome(ErrorResponse(400, "Query is required"), NoLookup)
             ELSE Outcome(search_found(query), Called(query))

DemoResults == <<
    Rec("insulation4less", 1338, "25mm Celotex TB4025 PIR Insulation Board 2400mm x 1200mm", PIR),
    Rec("cutpriceinsulation", 1438, "25mm Ecotherm Eco-Versal PIR Insulation Board 2400mm x 1200mm", PIR) >>

DemoResponse ==
    [kind |-> "demo", status |-> 200, error |-> "",
     ai_summary |-> [material |-> "demo", count |-> 0, range |-> <<>>],
     results |-> DemoResults, total_results |-> Len(DemoResults)]

HealthResponse ==
    [kind |-> "health", status |-> 200, error |-> "", ai_summary |-> NoSummary,
     results |-> <<>>, total_results |-> 0]

Req(e, b) == [endpoint |-> e, body |-> b]

NoFirst == [set |-> FALSE, query |-> "", results |-> <<>>, later |-> FALSE]

\* The observer keeps the query and the records of the first search
\* answered, and whether a different request was handled after it.
Observe(req, resp) ==
    IF ~first.set
    THEN IF resp.kind = "search"
         THEN [set |-> TRUE, query |-> req.body.query, results |-> resp.results,
               later |-> FALSE]
         ELSE first
    ELSE IF req.endpoint = "search" /\ req.body.is_str /\ req.body.query = first.query
         THEN first
         ELSE [first EXCEPT !.later = TRUE]

(***************************************************************************)
(* The state machine                                                       *)
(***************************************************************************)
Init ==
    /\ kb = ENHANCED_KNOWLEDGE_BASE
    /\ request = Req("none", NoBody)
    /\ response = HealthResponse
    /\ lookup = NoLookup
    /\ first = NoFirst

\* a handler that cuts the matched list down to five records in place
search_truncating_in_place ==
    \E body \in Bodies :
        LET out == search_outcome(body)
        IN  /\ request' = Req("search", body)
            /\ response' = out.response
            /\ lookup' = out.lookup
            /\ kb' = [i \in DOMAIN kb |->
                        IF out.lookup.called /\ kb[i].data = find_best_match(out.lookup.query)
                        THEN Entry(kb[i].key,
                                   IF Len(kb[i].data.results) > 5
                                   THEN SubSeq(kb[i].data.results, 1, 5)
                                   ELSE kb[i].data.results)
                        ELSE kb[i]]
            /\ first' = Observe(Req("search", body), out.response)

\* POST /api/search
search ==
    \E body \in Bodies :
        LET out == search_outcome(body)
        IN  /\ request' = Req("search", body)
            /\ response' = out.response
            /\ lookup' = out.lookup
            /\ first' = Observe(Req("search", body), out.response)
            /\ UNCHANGED kb

\* GET /
health_check ==
    /\ request' = Req("health", NoBody)
    /\ response' = HealthResponse
    /\ lookup' = NoLookup
    /\ first' = Observe(Req("health", NoBody), HealthResponse)
    /\ UNCHANGED kb

\* GET /api/search/demo
demo ==
    /\ request' = Req("demo", NoBody)
    /\ response' = DemoResponse
    /\ lookup' = NoLookup
    /\ first' = Observe(Req("demo", NoBody), DemoResponse)
    /\ UNCHANGED kb

Next == search \/ health_check \/ demo

Spec == Init /\ [][Next]_vars
(***************************************************************************)
(* Properties                                                              *)
(***************************************************************************)
IsSearch == request.endpoint = "search"

\* the last request was a search whose body has a string under "query"
HasStringQuery ==
    IsSearch /\ request.body.json /\ request.body.has_query /\ request.body.is_str

Query == request.body.query

Blank(s) == \A i \in 1..Len(s) : Char(s, i) \in {" ", "\t", "\n"}

Answered == response.kind = "search"

\* C1: a search whose query is non-empty after trimming is answered with a
\* results list of at least one record.
C1_NonEmptyResults ==
    (HasStringQuery /\ ~Blank(Query)) =>
        /\ response.status = 200
        /\ Answered
        /\ Len(response.results) >= 1

\* a query that matches nothing was answered with records
C1_Witness ==
    /\ HasStringQuery
    /\ Query = "bricks"
    /\ Answered
    /\ Len(response.results) >= 1

Names50mm(q) == Contains("50mm", lower(q))
NamesPir(q) == Contains("pir", lower(q)) \/ Contains("insulation", lower(q))
Is50mm(r) == SubSeq(r.product_name, 1, 5) = "50mm "
Is25mm(r) == SubSeq(r.product_name, 1, 5) = "25mm "

\* C2: for a query that names 50mm together with a PIR/insulation keyword,
\* every 50mm product ranks above every 25mm product and the first record
\* returned is a 50mm product.
C2_ThicknessDiscrimination ==
    (HasStringQuery /\ Names50mm(Query) /\ NamesPir(Query)) =>
        /\ Answered
        /\ Len(response.results) >= 1
        /\ Is50mm(response.results[1])
        /\ \A i, j \in DOMAIN response.results :
              (Is25mm(response.results[i]) /\ Is50mm(response.results[j])) => j < i

CatalogueWords == <<"cheapest", "25mm", "50mm", "pir", "insulation",
                    "plasterboard", "9.5mm", "price">>
FuzzyWords == <<"pir", "insulation", "thermal", "celotex", "kingspan",
                "plasterboard", "plaster", "drywall", "gypsum">>

\* the query matches no catalogue key word and no fuzzy keyword
TotalMiss ==
    /\ HasStringQuery
    /\ ~Blank(Query)
    /\ ~AnyIn(CatalogueWords, lower(Query))
    /\ ~AnyIn(FuzzyWords, lower(Query))

CatalogueRecords ==
    {Results25[i] : i \in DOMAIN Results25}
        \cup {Results50[i] : i \in DOMAIN Results50}
        \cup {ResultsPlasterboard[i] : i \in DOMAIN ResultsPlasterboard}

C5_PriceMonotone ==
    Answered =>
        \A i, j \in DOMAIN response.results :
            i < j => response.results[i].price <= response.results[j].price

\* a list of several records with different prices was returned
C5_Witness ==
    /\ Answered
    /\ Len(response.results) >= 3
    /\ response.results[1].price < response.results[Len(response.results)].price

\* C6: the knowledge base is never changed, and a search with the query of
\* the first search returns the list the first search returned, whatever
\* was requested in between.
C6_Stateless ==
    /\ kb = ENHANCED_KNOWLEDGE_BASE
    /\ (first.set /\ HasStringQuery /\ Query = first.query) =>
          (Answered /\ response.results = first.results)

\* the first query was searched again after other requests
C6_Witness ==
    /\ first.set
    /\ first.later
    /\ HasStringQuery
    /\ Query = first.query
    /\ Answered

\* C7 as claimed: the returned list has at most 5 records.
C7_AtMostFive == IsSearch => Len(response.results) <= 5

\* C7 as amended: search takes no maximum from the caller and returns the
\* matched entry whole; the returned list has at most 10 records.
C7_AtMostTen == IsSearch => Len(response.results) <= 10

C7_Witness ==
    /\ Answered
    /\ Len(response.results) = 10

Prefix(s, n) == IF Len(s) <= n THEN s ELSE SubSeq(s, 1, n)

DedupKey(r) == <<r.supplier, lower(Prefix(r.product_name, 50))>>

\* C8: no two returned records share the key (supplier, lower-cased first
\* 50 characters of product_name).
C8_NoDuplicateKeys ==
    Answered =>
        LET keys == [i \in DOMAIN response.results |-> DedupKey(response.results[i])]
        IN  \A i, j \in DOMAIN keys : i # j => keys[i] # keys[j]

\* two returned records agree on the product part of the key and differ in
\* the supplier
C8_Witness ==
    /\ Answered
    /\ \E i, j \in DOMAIN response.results :
          /\ i # j
          /\ DedupKey(response.results[i])[2] = DedupKey(response.results[j])[2]
          /\ response.results[i].supplier # response.results[j].supplier

Prices(rs) == {rs[i].price : i \in DOMAIN rs}
MinOf(S) == CHOOSE x \in S : \A y \in S : x <= y
MaxOf(S) == CHOOSE x \in S : \A y \in S : x >= y

\* C10: in every answered search the summary agrees with the records: the
\* material it names is the category of every record, its count is
\* total_results and the length of results, and its price range is the
\* minimum and maximum price of the records.
C10_SummaryConsistent ==
    Answered =>
        /\ response.ai_summary.material = "PIR insulation" =>
              \A i \in DOMAIN response.results :
                  response.results[i].category = "PIR Insulation"
        /\ response.ai_summary.material = "plasterboard" =>
              \A i \in DOMAIN response.results :
                  response.results[i].category = "Plasterboard"
        /\ response.ai_summary.count = response.total_results
        /\ response.ai_summary.count = Len(response.results)
        /\ response.ai_summary.range # <<>> =>
              response.ai_summary.range =
                  <<MinOf(Prices(response.results)), MaxOf(Prices(response.results))>>
====
